---------------------------- MODULE Spec2Model ----------------------------
(***************************************************************************)
(* Model of src/src/circuits/rmd160.rs: the RIPEMD-160 compression chip.   *)
(*                                                                         *)
(* Number representation.  TLC integers are 32-bit signed, so a u32 does   *)
(* not fit in one.  A u32 is a tuple of 4 bytes, a u64 a tuple of 8 bytes, *)
(* least significant byte first.  A field element (type F) is a natural    *)
(* number written as its little-endian byte digits without trailing zero   *)
(* digits (so equal numbers are equal sequences).  Every value the chip    *)
(* writes and every gate polynomial evaluated on them stays below 2^72,    *)
(* far below the field modulus, so field arithmetic never wraps and is     *)
(* arithmetic on naturals; a gate "lhs - rhs = 0" is checked as lhs = rhs. *)
(***************************************************************************)
EXTENDS Integers, Sequences, FiniteSets, TLC

(***************************************************************************)
(* u32 primitives (Rust's built-in operations on u32).                     *)
(***************************************************************************)
Bit(w, i) == (w[(i \div 8) + 1] \div (2 ^ (i % 8))) % 2

ByteOfBits(b, j) ==
    b[8 * j] + 2 * b[8 * j + 1] + 4 * b[8 * j + 2] + 8 * b[8 * j + 3]
    + 16 * b[8 * j + 4] + 32 * b[8 * j + 5] + 64 * b[8 * j + 6] + 128 * b[8 * j + 7]

U32FromBits(b) == [j \in 1..4 |-> ByteOfBits(b, j - 1)]

U32Zero == <<0, 0, 0, 0>>

\* u32::wrapping_add
wrapping_add(x, y) ==
    LET s1 == x[1] + y[1]
        s2 == x[2] + y[2] + (s1 \div 256)
        s3 == x[3] + y[3] + (s2 \div 256)
        s4 == x[4] + y[4] + (s3 \div 256)
    IN  <<s1 % 256, s2 % 256, s3 % 256, s4 % 256>>

\* u32::rotate_left(n): the rotation count is taken mod 32
rotate_left(w, n) ==
    U32FromBits([i \in 0..31 |-> Bit(w, (i + 32 - (n % 32)) % 32)])

\* w >> n for 0 <= n <= 31
shr(w, n) ==
    U32FromBits([i \in 0..31 |-> IF i + n <= 31 THEN Bit(w, i + n) ELSE 0])

\* w % 2u32.pow(k) for 0 <= k <= 31
rem_pow2(w, k) ==
    U32FromBits([i \in 0..31 |-> IF i < k THEN Bit(w, i) ELSE 0])

(***************************************************************************)
(* Field elements: naturals as normalised little-endian byte sequences.    *)
(***************************************************************************)
RECURSIVE FNorm(_)
FNorm(s) ==
    IF s = <<>> THEN <<>>
    ELSE IF s[Len(s)] = 0 THEN FNorm(SubSeq(s, 1, Len(s) - 1))
    ELSE s

RECURSIVE FAddC(_, _, _)
FAddC(x, y, c) ==
    IF x = <<>> /\ y = <<>> THEN (IF c = 0 THEN <<>> ELSE <<c>>)
    ELSE LET a == IF x = <<>> THEN 0 ELSE Head(x)
             b == IF y = <<>> THEN 0 ELSE Head(y)
             s == a + b + c
         IN  <<s % 256>> \o FAddC(IF x = <<>> THEN <<>> ELSE Tail(x),
                                  IF y = <<>> THEN <<>> ELSE Tail(y),
                                  s \div 256)

\* F + F
FAdd(x, y) == FAddC(x, y, 0)

RECURSIVE FScaleC(_, _, _)
FScaleC(x, d, c) ==
    IF x = <<>> THEN (IF c = 0 THEN <<>> ELSE <<c>>)
    ELSE LET p == Head(x) * d + c
         IN  <<p % 256>> \o FScaleC(Tail(x), d, p \div 256)

RECURSIVE FMul(_, _)
\* F * F (schoolbook, one digit of y at a time)
FMul(x, y) ==
    IF y = <<>> \/ x = <<>> THEN <<>>
    ELSE LET rest == FMul(x, Tail(y))
         IN  FAdd(FNorm(FScaleC(x, Head(y), 0)),
                  IF rest = <<>> THEN <<>> ELSE <<0>> \o rest)

\* F::from(v as u64) for a u32 or u64 v
FFrom(v) == FNorm(v)

\* F::from(1u64 << k)
FPow2(k) == [i \in 1..((k \div 8) + 1) |-> IF i = (k \div 8) + 1 THEN 2 ^ (k % 8) ELSE 0]

\* F::one()
FOne == <<1>>


(***************************************************************************)
(* crate::utils (conversions between field elements, u32, u64 and byte     *)
(* limbs).  The file is not part of the sources at hand; modelled from the *)
(* specification's FieldArithmeticHelpers.                                 *)
(***************************************************************************)
\* the low 64 bits of a field element, as a u64
field_to_u64(f) == [i \in 1..8 |-> IF i <= Len(f) THEN f[i] ELSE 0]

\* the four 8-bit limbs of a u32, each a field element
u32_to_limbs(w) == [i \in 1..4 |-> FNorm(<<w[i]>>)]

\* an AssignedCell is [col, row, value]; col 0..6 are the chip's advice
\* columns, row is the absolute row
cell_to_value(cell) == cell.value

cell_to_u32(cell) == [i \in 1..4 |-> IF i <= Len(cell.value) THEN cell.value[i] ELSE 0]

cell_to_limbs(cell) == u32_to_limbs(cell_to_u32(cell))

(***************************************************************************)
(* u64 arithmetic used for the carries.                                    *)
(***************************************************************************)
u64_from_u32(w) == <<w[1], w[2], w[3], w[4], 0, 0, 0, 0>>

RECURSIVE SubB(_, _, _)
SubB(x, y, borrow) ==
    IF x = <<>> THEN <<>>
    ELSE LET d == Head(x) - Head(y) - borrow
         IN  <<d % 256>> \o SubB(Tail(x), Tail(y), IF d < 0 THEN 1 ELSE 0)

\* x - y on u64.  Every call site has x >= y (x is a sum of which y is the
\* low 32 bits), so the subtraction never underflows.
u64_sub(x, y) == SubB(x, y, 0)

\* x >> 32 on u64
u64_shr32(x) == <<x[5], x[6], x[7], x[8], 0, 0, 0, 0>>

(***************************************************************************)
(* crate::host::rmd160: the constant tables and the round functions of     *)
(* RIPEMD-160.  The file is not part of the sources at hand; the values    *)
(* are those of the RIPEMD-160 specification, which the specification      *)
(* names as the source of the tables.                                      *)
(***************************************************************************)
\* big-endian hex bytes to u32
W32(b3, b2, b1, b0) == <<b0, b1, b2, b3>>

H0 == << W32(103, 69, 35, 1), W32(239, 205, 171, 137), W32(152, 186, 220, 254),
         W32(16, 50, 84, 118), W32(195, 210, 225, 240) >>

ROUNDS_OFFSET == << W32(0, 0, 0, 0), W32(90, 130, 121, 153), W32(110, 217, 235, 161),
                    W32(143, 27, 188, 220), W32(169, 83, 253, 78) >>

PROUNDS_OFFSET == << W32(80, 162, 139, 230), W32(92, 77, 209, 36), W32(109, 112, 62, 243),
                     W32(122, 109, 118, 233), W32(0, 0, 0, 0) >>

O == << <<0, 1, 2, 3, 4, 5, 6, 7, 8, 9, 10, 11, 12, 13, 14, 15>>,
        <<7, 4, 13, 1, 10, 6, 15, 3, 12, 0, 9, 5, 2, 14, 11, 8>>,
        <<3, 10, 14, 4, 9, 15, 8, 1, 2, 7, 0, 6, 13, 11, 5, 12>>,
        <<1, 9, 11, 10, 0, 8, 12, 4, 13, 3, 7, 15, 14, 5, 6, 2>>,
        <<4, 0, 5, 9, 7, 12, 2, 10, 14, 1, 3, 8, 11, 6, 15, 13>> >>

PO == << <<5, 14, 7, 0, 9, 2, 11, 4, 13, 6, 15, 8, 1, 10, 3, 12>>,
         <<6, 11, 3, 7, 0, 13, 5, 10, 14, 15, 8, 12, 4, 9, 1, 2>>,
         <<15, 5, 1, 3, 7, 14, 6, 9, 11, 8, 12, 2, 10, 0, 4, 13>>,
         <<8, 6, 4, 1, 3, 11, 15, 0, 5, 12, 2, 13, 9, 7, 10, 14>>,
         <<12, 15, 10, 4, 1, 5, 8, 7, 6, 2, 13, 14, 0, 3, 9, 11>> >>

R == << <<11, 14, 15, 12, 5, 8, 7, 9, 11, 13, 14, 15, 6, 7, 9, 8>>,
        <<7, 6, 8, 13, 11, 9, 7, 15, 7, 12, 15, 9, 11, 7, 13, 12>>,
        <<11, 13, 6, 7, 14, 9, 13, 15, 14, 8, 13, 6, 5, 12, 7, 5>>,
        <<11, 12, 14, 15, 14, 15, 9, 8, 9, 14, 5, 6, 8, 6, 5, 12>>,
        <<9, 15, 5, 11, 6, 8, 13, 12, 5, 12, 13, 14, 11, 8, 5, 6>> >>

PR == << <<8, 9, 9, 11, 13, 15, 15, 5, 7, 7, 8, 11, 14, 14, 12, 6>>,
         <<9, 13, 15, 7, 12, 8, 9, 11, 7, 7, 12, 7, 6, 15, 13, 11>>,
         <<9, 7, 15, 11, 8, 6, 6, 14, 12, 13, 5, 14, 13, 13, 7, 5>>,
         <<15, 5, 8, 11, 14, 14, 6, 14, 6, 9, 12, 9, 12, 5, 15, 8>>,
         <<8, 5, 12, 9, 12, 5, 14, 6, 8, 13, 6, 5, 15, 13, 11, 11>> >>

\* one bit of RMD160Atomic::atomic(round, x, y, z)
atomic_bit(f, x, y, z) ==
    CASE f = 0 -> (x + y + z) % 2                                   \* x ^ y ^ z
      [] f = 1 -> IF x = 1 THEN y ELSE z                            \* (x & y) | (!x & z)
      [] f = 2 -> ((IF x = 1 \/ y = 0 THEN 1 ELSE 0) + z) % 2       \* (x | !y) ^ z
      [] f = 3 -> IF z = 1 THEN x ELSE y                            \* (x & z) | (y & !z)
      [] f = 4 -> (x + (IF y = 1 \/ z = 0 THEN 1 ELSE 0)) % 2       \* x ^ (y | !z)

\* u32::atomic(f, x, y, z)
atomic(f, x, y, z) ==
    U32FromBits([i \in 0..31 |-> atomic_bit(f, Bit(x, i), Bit(y, i), Bit(z, i))])

(***************************************************************************)
(* get_witnesses (lines 92-114).  round is 0..4, rol the five u32 of the   *)
(* incoming state, shift the table entry.                                  *)
(***************************************************************************)
\* mutant of round_function: the right line not mirrored
round_function_unmirrored(round, pround) == round

\* line 93: the round function index of the line
round_function(round, pround) == IF pround THEN 5 - round - 1 ELSE round

\* lines 99-100 with shift = 0: w0 >> 32 overflows (a panic in a debug
\* build); in a release build the shift count is masked, 2u32.pow(32) wraps
\* to 0 and w0 % 0 panics.  Either build panics inside get_witnesses.
get_witnesses_panics(shift) == shift = 0

\* mutant of split_high: the shift count not complemented
split_high_uncomplemented(w0, shift) == shr(w0, shift)

\* line 99: w0 >> (32 - shift), for 1 <= shift <= 32
split_high(w0, shift) == shr(w0, 32 - shift)

\* mutant of split_low: the exponent not complemented
split_low_uncomplemented(w0, shift) == rem_pow2(w0, shift)

\* line 100: w0 % 2u32.pow(32 - shift), for 1 <= shift <= 32
split_low(w0, shift) == rem_pow2(w0, 32 - shift)

\* mutant of carry_of: the difference not shifted down
carry_of_unshifted(sum, word) == u64_sub(field_to_u64(sum), u64_from_u32(word))

\* lines 97, 103: (field_to_u64(sum) - (word as u64)) >> 32
carry_of(sum, word) == u64_shr32(u64_sub(field_to_u64(sum), u64_from_u32(word)))

\* lines 95-113: everything get_witnesses derives from the round function's
\* output r
witnesses_from(r, rol, x, shift, offset) ==
    LET w0     == wrapping_add(wrapping_add(wrapping_add(r, rol[1]), x), offset)
        wb     == FAdd(FAdd(FAdd(FFrom(r), FFrom(rol[1])), FFrom(x)), FFrom(offset))
        wc     == carry_of(wb, w0)
        w1     == rotate_left(w0, shift)
        w1_h   == split_high(w0, shift)
        w1_l   == split_low(w0, shift)
        a_next == wrapping_add(w1, rol[5])
        w2b    == FAdd(FFrom(w1), FFrom(rol[5]))
        w2c    == carry_of(w2b, a_next)
        w4_h   == shr(rol[3], 22)
        w4_l   == rem_pow2(rol[3], 22)
        c_next == rotate_left(rol[3], 10)
    IN  [r |-> r, w0 |-> w0, wb |-> wb, wc |-> wc, w1 |-> w1, w1_h |-> w1_h,
         w1_l |-> w1_l, a_next |-> a_next, w2b |-> w2b, w2c |-> w2c,
         w4_h |-> w4_h, w4_l |-> w4_l, c_next |-> c_next]

get_witnesses(round, rol, x, shift, offset, pround) ==
    witnesses_from(atomic(round_function(round, pround), rol[2], rol[3], rol[4]),
                   rol, x, shift, offset)

(***************************************************************************)
(* GateCell (lines 36-61): kind 0 advice, 1 fixed, 2 selector; col; row    *)
(* offset inside the gate's window.                                        *)
(***************************************************************************)
adv(col, row) == [kind |-> 0, col |-> col, row |-> row]
fix(col, row) == [kind |-> 1, col |-> col, row |-> row]
sel(col, row) == [kind |-> 2, col |-> col, row |-> row]

\* RoundGate (lines 120-151)
RoundGate_hsel(i) == sel(0, 0)
RoundGate_rsel(i) == sel(1, i)
RoundGate_offset == fix(0, 0)
RoundGate_w1_r == fix(0, 1)
RoundGate_w1_rr == fix(0, 2)
RoundGate_a == adv(0, 0)
RoundGate_w0 == adv(0, 1)
RoundGate_wb == adv(0, 2)
RoundGate_wc == adv(0, 3)
RoundGate_w1 == adv(0, 4)
RoundGate_b == adv(1, 0)
RoundGate_c == adv(2, 0)
RoundGate_d == adv(3, 0)
RoundGate_x == adv(4, 0)
RoundGate_e == adv(5, 0)
RoundGate_blimb(i) == adv(1, i + 1)
\* mutant of RoundGate_climb: the c limbs put in the column of the b limbs
RoundGate_climb_shared(i) == RoundGate_blimb(i)
RoundGate_climb(i) == adv(2, i + 1)
RoundGate_dlimb(i) == adv(3, i + 1)
RoundGate_rlimb(i) == adv(4, i + 1)
RoundGate_w1_h == adv(5, 1)
RoundGate_w1_l == adv(5, 2)
RoundGate_a_next == adv(5, 3)
RoundGate_c_next == adv(6, 0)
RoundGate_w4_h == adv(6, 1)
RoundGate_w4_l == adv(6, 2)
RoundGate_w2b == adv(6, 3)
\* mutant of RoundGate_w2c: the cell one row below the window
RoundGate_w2c_below == adv(6, 5)
RoundGate_w2c == adv(6, 4)

\* CompressGate (lines 167-204)
CompressGate_a == adv(0, 0)
CompressGate_b == adv(0, 1)
CompressGate_c == adv(0, 2)
CompressGate_d == adv(0, 3)
CompressGate_e == adv(0, 4)
CompressGate_b1 == adv(1, 0)
CompressGate_c1 == adv(1, 1)
CompressGate_d1 == adv(1, 2)
CompressGate_e1 == adv(1, 3)
CompressGate_a1 == adv(1, 4)
CompressGate_c2 == adv(2, 0)
CompressGate_d2 == adv(2, 1)
CompressGate_e2 == adv(2, 2)
CompressGate_a2 == adv(2, 3)
CompressGate_b2 == adv(2, 4)
CompressGate_sum0 == adv(3, 0)
CompressGate_sum1 == adv(3, 1)
CompressGate_sum2 == adv(3, 2)
CompressGate_sum3 == adv(3, 3)
CompressGate_sum4 == adv(3, 4)
CompressGate_ca0 == adv(4, 0)
CompressGate_ca1 == adv(4, 1)
CompressGate_ca2 == adv(4, 2)
CompressGate_ca3 == adv(4, 3)
CompressGate_ca4 == adv(4, 4)
CompressGate_bnew == adv(4, 0)
CompressGate_cnew == adv(4, 1)
CompressGate_dnew == adv(4, 2)
CompressGate_enew == adv(4, 3)
CompressGate_anew == adv(4, 4)

(***************************************************************************)
(* The region being assigned.  advice maps <<col, row>> to the value last  *)
(* assigned there, fixed maps a row of the fixed column to its value, hsel *)
(* is the set of rows on which selector[0] is enabled, copies the set of   *)
(* equality constraints <<cell, cell>>, a cell being <<col, row>>.  An     *)
(* assignment to a position already assigned replaces its value.           *)
(***************************************************************************)
EmptyRegion == [advice |-> <<>>, fixed |-> <<>>, hsel |-> {}, copies |-> {}]

Put(f, k, v) == [y \in (DOMAIN f) \cup {k} |-> IF y = k THEN v ELSE f[y]]

\* the AssignedCell that assign_cell returns
AssignedCell(start_offset, gate_cell, value) ==
    [col |-> gate_cell.col, row |-> start_offset + gate_cell.row, value |-> value]

\* assign_cell (lines 355-381); a selector cell is unreachable!()
assign_cell(region, start_offset, gate_cell, value) ==
    IF gate_cell.kind = 0
    THEN [region EXCEPT !.advice =
              Put(@, <<gate_cell.col, start_offset + gate_cell.row>>, value)]
    ELSE [region EXCEPT !.fixed = Put(@, start_offset + gate_cell.row, value)]

\* mutant of enable_selector: the window's first row not added to the offset
enable_selector_unshifted(region, start_offset, gate_cell) ==
    [region EXCEPT !.hsel = @ \cup {gate_cell.row}]

\* enable_selector (lines 383-392): the value argument is ignored
enable_selector(region, start_offset, gate_cell) ==
    [region EXCEPT !.hsel = @ \cup {start_offset + gate_cell.row}]

\* mutant of bind_cell: the value is written but no equality is recorded
bind_cell_unrecorded(region, start_offset, cell, value) ==
    assign_cell(region, start_offset, cell, cell_to_value(value))

\* bind_cell (lines 395-406)
bind_cell(region, start_offset, cell, value) ==
    LET f == cell_to_value(value)
        assigned == assign_cell(region, start_offset, cell, f)
    IN  [assigned EXCEPT !.copies =
             @ \cup {<< <<cell.col, start_offset + cell.row>>, <<value.col, value.row>> >>}]

\* A straight-line run of assignments, in program order.  An op is
\* [op |-> "assign", cell, value], [op |-> "bind", cell, value (an
\* AssignedCell)] or [op |-> "enable", cell].
RECURSIVE Run(_, _, _)
Run(region, start_offset, ops) ==
    IF ops = <<>> THEN region
    ELSE LET o == Head(ops)
             next == CASE o.op = "assign" -> assign_cell(region, start_offset, o.cell, o.value)
                       [] o.op = "bind" -> bind_cell(region, start_offset, o.cell, o.value)
                       [] o.op = "enable" -> enable_selector(region, start_offset, o.cell)
         IN  Run(next, start_offset, Tail(ops))

Assign(cell, value) == [op |-> "assign", cell |-> cell, value |-> value]
Bind(cell, value) == [op |-> "bind", cell |-> cell, value |-> value]
Enable(cell) == [op |-> "enable", cell |-> cell]

(***************************************************************************)
(* assign_next (lines 408-488).  previous is the quintuple of AssignedCells *)
(* of the incoming state, input the AssignedCell of the message word,      *)
(* shift the 5 x 16 shift table, offset the 5 round constants.  The result *)
(* is [region, out, panicked]: the region after the assignments made, the  *)
(* returned quintuple, and whether the call panicked (then out is <<>> and *)
(* the region holds the assignments made before the panic).                *)
(***************************************************************************)
\* lines 421-445: the binds, the two fixed shift cells, the b, c, d limbs
assign_next_binds(previous, input, s) ==
    LET blimbs == cell_to_limbs(previous[2])
        climbs == cell_to_limbs(previous[3])
        dlimbs == cell_to_limbs(previous[4])
    IN  << Bind(RoundGate_a, previous[1]),
           Bind(RoundGate_b, previous[2]),
           Bind(RoundGate_c, previous[3]),
           Bind(RoundGate_d, previous[4]),
           Bind(RoundGate_e, previous[5]),
           Bind(RoundGate_x, input),
           Assign(RoundGate_w1_r, FPow2(s)),
           Assign(RoundGate_w1_rr, FPow2(32 - s)) >>
        \o [i \in 1..4 |-> Assign(RoundGate_blimb(i - 1), blimbs[i])]
        \o [i \in 1..4 |-> Assign(RoundGate_climb(i - 1), climbs[i])]
        \o [i \in 1..4 |-> Assign(RoundGate_dlimb(i - 1), dlimbs[i])]

\* lines 461-464: the weighted sum of the r limbs
sum_limbs(limbs) ==
    FAdd(FAdd(FAdd(limbs[1], FMul(limbs[2], FPow2(8))), FMul(limbs[3], FPow2(16))),
         FMul(limbs[4], FPow2(24)))

\* lines 466-470: the three assertions
assign_next_asserts(witness, previous, input, offset_r) ==
    /\ sum_limbs(u32_to_limbs(witness.r)) = FFrom(witness.r)
    /\ witness.w2b = FAdd(FFrom(witness.w1), FFrom(cell_to_u32(previous[5])))
    /\ witness.wb = FAdd(FAdd(FAdd(FFrom(witness.r), FFrom(cell_to_u32(previous[1]))),
                              FFrom(cell_to_u32(input))), FFrom(offset_r))

\* lines 471-486: the witness cells, the selector, a_next and c_next
assign_next_witness(witness) ==
    LET rlimbs == u32_to_limbs(witness.r)
    IN  [i \in 1..4 |-> Assign(RoundGate_rlimb(i - 1), rlimbs[i])]
        \o << Assign(RoundGate_w0, FFrom(witness.w0)),
              Assign(RoundGate_wb, witness.wb),
              Assign(RoundGate_wc, FFrom(witness.wc)),
              Assign(RoundGate_w1, FFrom(witness.w1)),
              Assign(RoundGate_w1_h, FFrom(witness.w1_h)),
              Assign(RoundGate_w1_l, FFrom(witness.w1_l)),
              Assign(RoundGate_w4_h, FFrom(witness.w4_h)),
              Assign(RoundGate_w4_l, FFrom(witness.w4_l)),
              Assign(RoundGate_w2b, witness.w2b),
              Assign(RoundGate_w2c, FFrom(witness.w2c)),
              Enable(RoundGate_hsel(0)),
              Assign(RoundGate_a_next, FFrom(witness.a_next)),
              Assign(RoundGate_c_next, FFrom(witness.c_next)) >>

\* mutant of assign_next_result: the quintuple returned without the rotation
assign_next_result_unrotated(start_offset, previous, witness) ==
    << AssignedCell(start_offset, RoundGate_a_next, FFrom(witness.a_next)),
       AssignedCell(start_offset, RoundGate_b, cell_to_value(previous[2])),
       AssignedCell(start_offset, RoundGate_c_next, FFrom(witness.c_next)),
       AssignedCell(start_offset, RoundGate_d, cell_to_value(previous[4])),
       AssignedCell(start_offset, RoundGate_e, cell_to_value(previous[5])) >>

\* line 487: Ok([e, a, b, c, d])
assign_next_result(start_offset, previous, witness) ==
    << AssignedCell(start_offset, RoundGate_e, cell_to_value(previous[5])),
       AssignedCell(start_offset, RoundGate_a_next, FFrom(witness.a_next)),
       AssignedCell(start_offset, RoundGate_b, cell_to_value(previous[2])),
       AssignedCell(start_offset, RoundGate_c_next, FFrom(witness.c_next)),
       AssignedCell(start_offset, RoundGate_d, cell_to_value(previous[4])) >>

assign_next(region, start_offset, previous, input, round, index, shift, offset, pround) ==
    LET s == shift[round + 1][index + 1]
        bound == Run(region, start_offset, assign_next_binds(previous, input, s))
        rol == [i \in 1..5 |-> cell_to_u32(previous[i])]
        witness == get_witnesses(round, rol, cell_to_u32(input), s, offset[round + 1], pround)
        \* line 458
        with_offset == Run(bound, start_offset,
                           << Assign(RoundGate_offset, FFrom(offset[round + 1])) >>)
    IN  IF get_witnesses_panics(s)
        THEN [region |-> bound, out |-> <<>>, panicked |-> TRUE]
        ELSE IF ~assign_next_asserts(witness, previous, input, offset[round + 1])
        THEN [region |-> with_offset, out |-> <<>>, panicked |-> TRUE]
        ELSE [region |-> Run(with_offset, start_offset, assign_next_witness(witness)),
              out |-> assign_next_result(start_offset, previous, witness),
              panicked |-> FALSE]

\* rotate_inputs (lines 490-496)
rotate_inputs(inputs, round_shift) == [i \in 1..16 |-> inputs[round_shift[i] + 1]]

(***************************************************************************)
(* assign_compress (lines 498-588).  The result is [region, out].          *)
(***************************************************************************)
\* one of the five blocks (lines 522-585): the u32 sum, the field sum, the
\* carry, and the three assignments in program order
compress_word(x, y, z, sum_cell, ca_cell, new_cell) ==
    LET new == wrapping_add(wrapping_add(cell_to_u32(x), cell_to_u32(y)), cell_to_u32(z))
        sum == FAdd(FAdd(cell_to_value(x), cell_to_value(y)), cell_to_value(z))
        ca  == carry_of(sum, new)
    IN  << Assign(sum_cell, sum), Assign(ca_cell, FFrom(ca)), Assign(new_cell, FFrom(new)) >>

\* the value of the AssignedCell a block evaluates to
compress_new(x, y, z) ==
    FFrom(wrapping_add(wrapping_add(cell_to_u32(x), cell_to_u32(y)), cell_to_u32(z)))

\* lines 506-520
assign_compress_binds(r0, r1, r2) ==
    << Bind(CompressGate_a, r0[1]), Bind(CompressGate_b, r0[2]), Bind(CompressGate_c, r0[3]),
       Bind(CompressGate_d, r0[4]), Bind(CompressGate_e, r0[5]),
       Bind(CompressGate_a1, r1[1]), Bind(CompressGate_b1, r1[2]), Bind(CompressGate_c1, r1[3]),
       Bind(CompressGate_d1, r1[4]), Bind(CompressGate_e1, r1[5]),
       Bind(CompressGate_a2, r2[1]), Bind(CompressGate_b2, r2[2]), Bind(CompressGate_c2, r2[3]),
       Bind(CompressGate_d2, r2[4]), Bind(CompressGate_e2, r2[5]) >>

\* lines 522-585; the third block assigns its carry to ca0 (line 557)
assign_compress_words(r0, r1, r2) ==
    compress_word(r0[1], r1[2], r2[3], CompressGate_sum0, CompressGate_ca0, CompressGate_anew)
    \o compress_word(r0[2], r1[3], r2[4], CompressGate_sum1, CompressGate_ca1, CompressGate_bnew)
    \o compress_word(r0[3], r1[4], r2[5], CompressGate_sum2, CompressGate_ca0, CompressGate_cnew)
    \o compress_word(r0[4], r1[5], r2[1], CompressGate_sum3, CompressGate_ca3, CompressGate_dnew)
    \o compress_word(r0[5], r1[1], r2[2], CompressGate_sum4, CompressGate_ca4, CompressGate_enew)

\* mutant of assign_compress_result: the words returned in the order of the
\* layout comment (bnew, cnew, dnew, enew, anew)
assign_compress_result_layout_order(start_offset, r0, r1, r2) ==
    << AssignedCell(start_offset, CompressGate_bnew, compress_new(r0[2], r1[3], r2[4])),
       AssignedCell(start_offset, CompressGate_cnew, compress_new(r0[3], r1[4], r2[5])),
       AssignedCell(start_offset, CompressGate_dnew, compress_new(r0[4], r1[5], r2[1])),
       AssignedCell(start_offset, CompressGate_enew, compress_new(r0[5], r1[1], r2[2])),
       AssignedCell(start_offset, CompressGate_anew, compress_new(r0[1], r1[2], r2[3])) >>

\* line 587: Ok([anew, bnew, cnew, dnew, enew])
assign_compress_result(start_offset, r0, r1, r2) ==
    << AssignedCell(start_offset, CompressGate_anew, compress_new(r0[1], r1[2], r2[3])),
       AssignedCell(start_offset, CompressGate_bnew, compress_new(r0[2], r1[3], r2[4])),
       AssignedCell(start_offset, CompressGate_cnew, compress_new(r0[3], r1[4], r2[5])),
       AssignedCell(start_offset, CompressGate_dnew, compress_new(r0[4], r1[5], r2[1])),
       AssignedCell(start_offset, CompressGate_enew, compress_new(r0[5], r1[1], r2[2])) >>

assign_compress(region, start_offset, r0, r1, r2) ==
    [region |-> Run(region, start_offset,
                    assign_compress_binds(r0, r1, r2) \o assign_compress_words(r0, r1, r2)),
     out |-> assign_compress_result(start_offset, r0, r1, r2)]

(***************************************************************************)
(* configure (lines 247-353): the five gates.  get_expr (lines 214-223)    *)
(* reads a gate cell at a rotation from the row the gate is applied to; a  *)
(* position never assigned reads as zero.  Each polynomial p * hsel of a   *)
(* gate must be zero on every row: on a row whose selector is off it is,   *)
(* on a row whose selector is on p must be zero.  p = lhs - rhs is zero    *)
(* exactly when lhs = rhs.                                                 *)
(***************************************************************************)
FZero == <<>>

get_expr(region, row, gate_cell) ==
    CASE gate_cell.kind = 0 ->
            IF <<gate_cell.col, row + gate_cell.row>> \in DOMAIN region.advice
            THEN region.advice[<<gate_cell.col, row + gate_cell.row>>] ELSE FZero
      [] gate_cell.kind = 1 ->
            IF row + gate_cell.row \in DOMAIN region.fixed
            THEN region.fixed[row + gate_cell.row] ELSE FZero
      [] gate_cell.kind = 2 ->
            IF gate_cell.col = 0 /\ row \in region.hsel THEN FOne ELSE FZero

\* limbs[1] + limbs[2] * 2^8 + limbs[3] * 2^16 + limbs[4] * 2^24 of the four
\* limb cells (lines 259-263, 296-314)
limb_sum_expr(region, row, limbs) ==
    FAdd(FAdd(FAdd(get_expr(region, row, limbs[1]),
                   FMul(get_expr(region, row, limbs[2]), FPow2(8))),
              FMul(get_expr(region, row, limbs[3]), FPow2(16))),
         FMul(get_expr(region, row, limbs[4]), FPow2(24)))

rlimbs_cells == [i \in 1..4 |-> RoundGate_rlimb(i - 1)]
blimbs_cells == [i \in 1..4 |-> RoundGate_blimb(i - 1)]
climbs_cells == [i \in 1..4 |-> RoundGate_climb(i - 1)]
dlimbs_cells == [i \in 1..4 |-> RoundGate_dlimb(i - 1)]

\* mutant of gate_sum_with_bound: the commented-out polynomial of line 273
\* taken as part of the gate
gate_sum_with_bound_ranged(region, row) ==
    LET sum_r == limb_sum_expr(region, row, rlimbs_cells)
        w0 == get_expr(region, row, RoundGate_w0)
        wb == get_expr(region, row, RoundGate_wb)
        wc == get_expr(region, row, RoundGate_wc)
        a == get_expr(region, row, RoundGate_a)
        x == get_expr(region, row, RoundGate_x)
        offset == get_expr(region, row, RoundGate_offset)
    IN  /\ wb = FAdd(FAdd(FAdd(sum_r, a), x), offset)
        /\ FMul(wc, wc) = FMul(wc, FOne)
        /\ FAdd(w0, FMul(wc, FPow2(32))) = wb

\* "sum with bound" (lines 258-276)
gate_sum_with_bound(region, row) ==
    LET sum_r == limb_sum_expr(region, row, rlimbs_cells)
        w0 == get_expr(region, row, RoundGate_w0)
        wb == get_expr(region, row, RoundGate_wb)
        wc == get_expr(region, row, RoundGate_wc)
        a == get_expr(region, row, RoundGate_a)
        x == get_expr(region, row, RoundGate_x)
        offset == get_expr(region, row, RoundGate_offset)
    IN  /\ wb = FAdd(FAdd(FAdd(sum_r, a), x), offset)
        /\ FAdd(w0, FMul(wc, FPow2(32))) = wb

\* "sum with w1 rol4" (lines 278-290)
gate_sum_with_w1_rol4(region, row) ==
    LET a_next == get_expr(region, row, RoundGate_a_next)
        w1 == get_expr(region, row, RoundGate_w1)
        w2b == get_expr(region, row, RoundGate_w2b)
        w2c == get_expr(region, row, RoundGate_w2c)
        e == get_expr(region, row, RoundGate_e)
    IN  /\ w2b = FAdd(w1, e)
        /\ FMul(w2c, w2c) = FMul(w2c, FOne)
        /\ FAdd(a_next, FMul(w2c, FPow2(32))) = w2b

\* "limbs sum" (lines 292-321)
gate_limbs_sum(region, row) ==
    /\ limb_sum_expr(region, row, blimbs_cells) = get_expr(region, row, RoundGate_b)
    /\ limb_sum_expr(region, row, climbs_cells) = get_expr(region, row, RoundGate_c)
    /\ limb_sum_expr(region, row, dlimbs_cells) = get_expr(region, row, RoundGate_d)

\* "c rotate" (lines 323-335)
gate_c_rotate(region, row) ==
    LET c == get_expr(region, row, RoundGate_c)
        c_next == get_expr(region, row, RoundGate_c_next)
        w4l == get_expr(region, row, RoundGate_w4_l)
        w4h == get_expr(region, row, RoundGate_w4_h)
    IN  /\ FAdd(FMul(w4h, FPow2(22)), w4l) = c
        /\ FAdd(FMul(w4l, FPow2(10)), w4h) = c_next

\* "w0 rotate" (lines 337-350)
gate_w0_rotate(region, row) ==
    LET w0 == get_expr(region, row, RoundGate_w0)
        w1 == get_expr(region, row, RoundGate_w1)
        w1l == get_expr(region, row, RoundGate_w1_l)
        w1h == get_expr(region, row, RoundGate_w1_h)
        shift == get_expr(region, row, RoundGate_w1_r)
        shift2 == get_expr(region, row, RoundGate_w1_rr)
    IN  /\ FAdd(FMul(w1h, shift2), w1l) = w0
        /\ FAdd(FMul(w1l, shift), w1h) = w1

\* every gate configure creates, on one row
configure(region, row) ==
    get_expr(region, row, RoundGate_hsel(0)) = FOne =>
        /\ gate_sum_with_bound(region, row)
        /\ gate_sum_with_w1_rol4(region, row)
        /\ gate_limbs_sum(region, row)
        /\ gate_c_rotate(region, row)
        /\ gate_w0_rotate(region, row)

(***************************************************************************)
(* Inputs.  The initial quintuples and message blocks are drawn from a     *)
(* family of samples: the test's own vector (H0 and the block 1..16), the  *)
(* all-ones words (every carry at its maximum), the zero words, and words  *)
(* with scattered bit patterns.                                            *)
(***************************************************************************)
MaxBlock == 1
MaxQuint == 3
MaxMsg == 1

ScatterWord(n) == [k \in 1..4 |-> (7 * n * n + n * (37 * k + 11) + 59 * k + 101) % 256]
OnesWord == <<255, 255, 255, 255>>

QuintSample(q) ==
    CASE q = 0 -> H0
      [] q = 1 -> [i \in 1..5 |-> OnesWord]
      [] q = 2 -> [i \in 1..5 |-> U32Zero]
      [] OTHER -> [i \in 1..5 |-> ScatterWord(5 * q + i)]

MsgSample(m) ==
    CASE m = 0 -> [i \in 1..16 |-> <<i, 0, 0, 0>>]
      [] m = 1 -> [i \in 1..16 |-> OnesWord]
      [] OTHER -> [i \in 1..16 |-> ScatterWord(16 * m + i + 100)]

(***************************************************************************)
(* The test's HelperChip (lines 693-754): assign_w puts the five initial   *)
(* words, assign_inputs the sixteen message words, into its own advice     *)
(* column (here column 7), each in a region of its own; the floor planner  *)
(* stacks the two regions, rows 0..4 and 5..20.                            *)
(***************************************************************************)
HelperCol == 7

assign_w(words, first_row) ==
    [i \in 1..5 |-> [col |-> HelperCol, row |-> first_row + i - 1, value |-> FFrom(words[i])]]

assign_inputs(words, first_row) ==
    [i \in 1..16 |-> [col |-> HelperCol, row |-> first_row + i - 1, value |-> FFrom(words[i])]]

\* the advice cells that hold a sequence of AssignedCells
CellsOf(cells) ==
    [p \in {<<cells[i].col, cells[i].row>> : i \in DOMAIN cells} |->
        (CHOOSE i \in DOMAIN cells : <<cells[i].col, cells[i].row>> = p) \* positions are distinct
    ]

HeldBy(cells) == [p \in DOMAIN CellsOf(cells) |-> cells[CellsOf(cells)[p]].value]

(***************************************************************************)
(* State.  advice, fixed, hsel, copies: the trace (see EmptyRegion).       *)
(* pc: the position of the caller.  start_offset, round, index: the local  *)
(* variables of assign_content.  start_buf, inputs: its arguments.  r1,    *)
(* r2: the running quintuples of the two lines.  ret: the value returned.  *)
(* call: the parameters of a single call of assign_next that are not       *)
(* among the former (the shift entry and the line).                        *)
(***************************************************************************)
VARIABLES advice, fixed, hsel, copies, pc, start_offset, round, index,
          start_buf, inputs, r1, r2, ret, call

vars == <<advice, fixed, hsel, copies, pc, start_offset, round, index,
          start_buf, inputs, r1, r2, ret, call>>

Trace == [advice |-> advice, fixed |-> fixed, hsel |-> hsel, copies |-> copies]

\* The assignments a call made, applied to the trace: a position assigned
\* by the call takes the call's value, every other position keeps its own.
Commit(region) ==
    /\ advice' = region.advice @@ advice
    /\ fixed' = region.fixed @@ fixed
    /\ hsel' = hsel \cup region.hsel
    /\ copies' = copies \cup region.copies

(***************************************************************************)
(* assign_content (lines 591-648) called as the test's synthesize does     *)
(* (lines 782-800).                                                        *)
(***************************************************************************)
Rounds == 5
Steps == 16
Window == 5

Init ==
    /\ \E blk \in 0..MaxBlock :
          /\ start_buf = assign_w(QuintSample(blk), 0)
          /\ inputs = assign_inputs(MsgSample(blk), 5)
    /\ advice = HeldBy(start_buf) @@ HeldBy(inputs)
    /\ fixed = <<>>
    /\ hsel = {}
    /\ copies = {}
    /\ pc = "left"
    /\ start_offset = 0
    /\ round = 0
    /\ index = 0
    /\ r1 = start_buf
    /\ r2 = <<>>
    /\ ret = <<>>
    /\ call = "assign_content"

\* the loop counters after one iteration of "for round .. for index"
Advance(after) ==
    /\ index' = IF index = Steps - 1 THEN 0 ELSE index + 1
    /\ round' = IF index = Steps - 1
                THEN (IF round = Rounds - 1 THEN 0 ELSE round + 1) ELSE round
    /\ pc' = IF index = Steps - 1 /\ round = Rounds - 1 THEN after ELSE pc

\* lines 602-617: one iteration of the left line's loop
LeftStep ==
    /\ pc = "left"
    /\ LET res == assign_next(EmptyRegion, start_offset, r1,
                              rotate_inputs(inputs, O[round + 1])[index + 1],
                              round, index, R, ROUNDS_OFFSET, FALSE)
       IN  /\ ~res.panicked
           /\ Commit(res.region)
           /\ r1' = res.out
    /\ start_offset' = start_offset + Window
    /\ Advance("right")
    \* line 627
    /\ r2' = IF index = Steps - 1 /\ round = Rounds - 1 THEN start_buf ELSE r2
    /\ UNCHANGED <<start_buf, inputs, ret, call>>

\* lines 628-643: one iteration of the right line's loop
RightStep ==
    /\ pc = "right"
    /\ LET res == assign_next(EmptyRegion, start_offset, r2,
                              rotate_inputs(inputs, PO[round + 1])[index + 1],
                              round, index, PR, PROUNDS_OFFSET, TRUE)
       IN  /\ ~res.panicked
           /\ Commit(res.region)
           /\ r2' = res.out
    /\ start_offset' = start_offset + Window
    /\ Advance("compress")
    /\ UNCHANGED <<start_buf, inputs, r1, ret, call>>

\* line 644
Compress ==
    /\ pc = "compress"
    /\ LET res == assign_compress(EmptyRegion, start_offset, start_buf, r1, r2)
       IN  /\ Commit(res.region)
           /\ ret' = res.out
    /\ pc' = "done"
    /\ UNCHANGED <<start_offset, round, index, start_buf, inputs, r1, r2, call>>

Next == LeftStep \/ RightStep \/ Compress

Spec == Init /\ [][Next]_vars

(***************************************************************************)
(* One call of assign_next on arbitrary arguments: any sampled quintuple   *)
(* and message, any round, the first or the last index, either line, and a *)
(* shift table whose entry for that round and index is any value 0..32     *)
(* (the tables of RIPEMD-160 hold 5..15; 0 and 32 are the malformed        *)
(* entries).  The message word and the round constant are selected as      *)
(* assign_content selects them.                                            *)
(***************************************************************************)
Shifts == 0..32

\* the shift table of the line with one entry replaced
ShiftTable(pround, rnd, idx, s) ==
    [(IF pround THEN PR ELSE R) EXCEPT ![rnd + 1][idx + 1] = s]

InitStep ==
    /\ \E q \in 0..MaxQuint, m \in 0..MaxMsg :
          /\ start_buf = assign_w(QuintSample(q), 0)
          /\ inputs = assign_inputs(MsgSample(m), 5)
    /\ advice = HeldBy(start_buf) @@ HeldBy(inputs)
    /\ fixed = <<>>
    /\ hsel = {}
    /\ copies = {}
    /\ pc = "call_next"
    /\ start_offset = 0
    /\ round \in 0..(Rounds - 1)
    /\ index \in {0, Steps - 1}
    /\ r1 = start_buf
    /\ r2 = <<>>
    /\ ret = <<>>
    /\ call \in [shift : Shifts, pround : BOOLEAN]

\* the message cell assign_content passes for this round, index and line
InputOf(pround, rnd, idx) ==
    rotate_inputs(inputs, (IF pround THEN PO ELSE O)[rnd + 1])[idx + 1]

CallAssignNext ==
    /\ pc = "call_next"
    /\ LET res == assign_next(EmptyRegion, start_offset, r1,
                              InputOf(call.pround, round, index), round, index,
                              ShiftTable(call.pround, round, index, call.shift),
                              IF call.pround THEN PROUNDS_OFFSET ELSE ROUNDS_OFFSET,
                              call.pround)
       IN  /\ Commit(res.region)
           /\ ret' = res.out
           /\ pc' = IF res.panicked THEN "panicked" ELSE "returned"
    /\ UNCHANGED <<start_offset, round, index, start_buf, inputs, r1, r2, call>>

\* A prover that fills the row's witness cells from another value of r than
\* the round function's output: the cells assign_next_witness assigns are
\* assigned again, derived from r + 1 by the same arithmetic.
Forge ==
    /\ pc = "returned"
    /\ LET rol == [i \in 1..5 |-> cell_to_u32(r1[i])]
           offset == (IF call.pround THEN PROUNDS_OFFSET ELSE ROUNDS_OFFSET)[round + 1]
           r == atomic(round_function(round, call.pround), rol[2], rol[3], rol[4])
           forged == witnesses_from(wrapping_add(r, <<1, 0, 0, 0>>), rol,
                                    cell_to_u32(InputOf(call.pround, round, index)),
                                    call.shift, offset)
       IN  /\ Commit(Run(EmptyRegion, start_offset, assign_next_witness(forged)))
           /\ ret' = assign_next_result(start_offset, r1, forged)
    /\ pc' = "forged"
    /\ UNCHANGED <<start_offset, round, index, start_buf, inputs, r1, r2, call>>

NextStep == CallAssignNext \/ Forge

SpecStep == InitStep /\ [][NextStep]_vars

(***************************************************************************)
(* One call of assign_next followed by a prover that assigns other carries *)
(* to the row.  The cells a, b, c, d, e, x are bound and the fixed cells   *)
(* are the circuit's, so the prover changes witness cells only, keeping    *)
(* every sum balanced:                                                     *)
(*   wc:  the top r limb grows by 4 * 2^8, so the four-way sum wb grows by *)
(*        4 * 2^32 and the carry by 4, w0 staying as it is;                *)
(*   w2c: w1_h grows by 2^32, so w1 and w2b grow by 2^32 and the carry by  *)
(*        1, a_next staying as it is; w0 grows by 2^(64-s), and with it wb *)
(*        and (through the top r limb) the sum of the r limbs.             *)
(***************************************************************************)
ForgeCarry ==
    /\ pc = "returned"
    /\ \E which \in {"wc", "w2c"} :
          LET row == start_offset
              s == call.shift
              grown(cell, by) == Assign(cell, FAdd(get_expr(Trace, row, cell), by))
              ops == IF which = "wc"
                     THEN << grown(RoundGate_rlimb(3), FPow2(10)),
                             grown(RoundGate_wb, FPow2(34)),
                             grown(RoundGate_wc, <<4>>) >>
                     ELSE << grown(RoundGate_rlimb(3), FPow2(40 - s)),
                             grown(RoundGate_wb, FPow2(64 - s)),
                             grown(RoundGate_w0, FPow2(64 - s)),
                             grown(RoundGate_w1_h, FPow2(32)),
                             grown(RoundGate_w1, FPow2(32)),
                             grown(RoundGate_w2b, FPow2(32)),
                             grown(RoundGate_w2c, FOne) >>
          IN  /\ Commit(Run(EmptyRegion, row, ops))
              /\ pc' = IF which = "wc" THEN "forged_wc" ELSE "forged_w2c"
    /\ UNCHANGED <<start_offset, round, index, start_buf, inputs, r1, r2, ret, call>>

NextCarry == CallAssignNext \/ ForgeCarry

SpecCarry == InitStep /\ [][NextCarry]_vars

(***************************************************************************)
(* One call of assign_compress on arbitrary quintuples r0, r1, r2.  The    *)
(* cells of r1 and r2 sit where the last step of each line leaves them     *)
(* (the cells e, a_next, b, c_next, d of rows 395.. and 795..).            *)
(***************************************************************************)
LineResult(words, first_row) ==
    << AssignedCell(first_row, RoundGate_e, FFrom(words[1])),
       AssignedCell(first_row, RoundGate_a_next, FFrom(words[2])),
       AssignedCell(first_row, RoundGate_b, FFrom(words[3])),
       AssignedCell(first_row, RoundGate_c_next, FFrom(words[4])),
       AssignedCell(first_row, RoundGate_d, FFrom(words[5])) >>

InitCompress ==
    /\ \E q0 \in 0..MaxQuint, q1 \in 0..MaxQuint, q2 \in 0..MaxQuint :
          /\ start_buf = assign_w(QuintSample(q0), 0)
          /\ r1 = LineResult(QuintSample(q1), (Rounds * Steps - 1) * Window)
          /\ r2 = LineResult(QuintSample(q2), (2 * Rounds * Steps - 1) * Window)
    /\ inputs = <<>>
    /\ advice = HeldBy(start_buf) @@ HeldBy(r1) @@ HeldBy(r2)
    /\ fixed = <<>>
    /\ hsel = {}
    /\ copies = {}
    /\ pc = "call_compress"
    /\ start_offset = 2 * Rounds * Steps * Window
    /\ round = 0
    /\ index = 0
    /\ ret = <<>>
    /\ call = "assign_compress"

CallAssignCompress ==
    /\ pc = "call_compress"
    /\ LET res == assign_compress(EmptyRegion, start_offset, start_buf, r1, r2)
       IN  /\ Commit(res.region)
           /\ ret' = res.out
    /\ pc' = "compressed"
    /\ UNCHANGED <<start_offset, round, index, start_buf, inputs, r1, r2, call>>

NextCompress == CallAssignCompress

SpecCompress == InitCompress /\ [][NextCompress]_vars

(***************************************************************************)
(* Arithmetic the properties are stated in, on naturals (field elements):  *)
(* independent of the bit-level u32 primitives above.                      *)
(***************************************************************************)
\* n mod 2^32
Low32(f) == FNorm([i \in 1..4 |-> IF i <= Len(f) THEN f[i] ELSE 0])

\* floor(n / 2^32)
High32(f) == IF Len(f) <= 4 THEN <<>> ELSE SubSeq(f, 5, Len(f))

\* n < 2^k
BelowPow2(f, k) ==
    \/ Len(f) <= k \div 8
    \/ Len(f) = (k \div 8) + 1 /\ f[Len(f)] < 2 ^ (k % 8)

\* rotate_left of a 32-bit n by s, 0 <= s <= 32: (n * 2^s) mod 2^32 + floor(n * 2^s / 2^32)
Rotl(f, s) == FAdd(Low32(FMul(f, FPow2(s))), High32(FMul(f, FPow2(s))))

\* the value the trace holds at a gate cell of the window starting at row
At(row, gate_cell) == get_expr(Trace, row, gate_cell)

\* the value the trace holds at the position of an AssignedCell
Held(cell) == IF <<cell.col, cell.row>> \in DOMAIN advice
              THEN advice[<<cell.col, cell.row>>] ELSE FZero

\* every cell the five gates read on a row is assigned
RoundCells ==
    { RoundGate_a, RoundGate_w0, RoundGate_wb, RoundGate_wc, RoundGate_w1, RoundGate_b,
      RoundGate_c, RoundGate_d, RoundGate_x, RoundGate_e, RoundGate_w1_h, RoundGate_w1_l,
      RoundGate_a_next, RoundGate_c_next, RoundGate_w4_h, RoundGate_w4_l, RoundGate_w2b,
      RoundGate_w2c }
    \cup { RoundGate_blimb(i) : i \in 0..3 } \cup { RoundGate_climb(i) : i \in 0..3 }
    \cup { RoundGate_dlimb(i) : i \in 0..3 } \cup { RoundGate_rlimb(i) : i \in 0..3 }

RowAssigned(row) ==
    /\ \A g \in RoundCells : <<g.col, row + g.row>> \in DOMAIN advice
    /\ \A g \in {RoundGate_offset, RoundGate_w1_r, RoundGate_w1_rr} : row + g.row \in DOMAIN fixed

\* the rows the trace uses
Rows == 0..(2 * Rounds * Steps * Window + Window - 1)

\* what the mock verification checks: every gate on every row, every cell an
\* enabled gate reads assigned, every recorded equality
Verifies ==
    /\ \A row \in Rows : configure(Trace, row)
    /\ \A row \in hsel : RowAssigned(row)
    /\ \A p \in copies : /\ p[1] \in DOMAIN advice
                         /\ p[2] \in DOMAIN advice
                         /\ advice[p[1]] = advice[p[2]]

IsTestVector ==
    /\ start_buf = assign_w(H0, 0)
    /\ inputs = assign_inputs([i \in 1..16 |-> <<i, 0, 0, 0>>], 5)

(***************************************************************************)
(* C1.  With the initial quintuple H0 and the message block 1..16, the     *)
(* five words assign_content returns, in the returned order, are the five  *)
(* output words h0..h4 of the RIPEMD-160 compression function.  The        *)
(* reference output for this pair is 7afa4b5e f0ebd3a4 569da0d7 dce5cc61   *)
(* e0dc33b7 (an independent implementation, itself checked against the     *)
(* published digests of "" and "abc").  The code returns the same five     *)
(* words rotated by one place: e0dc33b7 first.                             *)
(***************************************************************************)
ReferenceDigest ==
    << W32(122, 250, 75, 94), W32(240, 235, 211, 164), W32(86, 157, 160, 215),
       W32(220, 229, 204, 97), W32(224, 220, 51, 183) >>

C1_DigestIsReference ==
    (pc = "done" /\ IsTestVector) =>
        [i \in 1..5 |-> cell_to_u32(ret[i])] = ReferenceDigest

\* what the code returns instead: word i is the reference's word i - 1 (cyclically)
C1_DigestIsRotatedReference ==
    (pc = "done" /\ IsTestVector) =>
        \A i \in 0..4 : cell_to_u32(ret[i + 1]) = ReferenceDigest[((i + 4) % 5) + 1]

(***************************************************************************)
(* C2.  After assign_content finishes, every equation of the five round    *)
(* gates holds on every row whose enable flag is 1, every cell those gates *)
(* read is assigned, and every equality recorded by bind_cell holds        *)
(* between the final values of the two cells it links.                     *)
(***************************************************************************)
C2_TraceVerifies == pc = "done" => Verifies

C2_Witness ==
    /\ pc = "done"
    /\ Cardinality(hsel) = 2 * Rounds * Steps
    /\ \E row \in hsel : At(row, RoundGate_wc) = <<2>> /\ At(row, RoundGate_w2c) = FOne

(***************************************************************************)
(* C3.  For the arguments of any call with a shift s in 1..31, the values  *)
(* get_witnesses returns (as assign_next writes them into the row and      *)
(* returns them) are w0 = (a + f(b,c,d) + x + const) mod 2^32,             *)
(* w1 = rotate_left(w0, s), a_next = (w1 + e) mod 2^32 and                 *)
(* c_next = rotate_left(c, 10), f being round function number round on the *)
(* left line and number 4 - round on the right line.                       *)
(***************************************************************************)
\* the four bytes of a natural below 2^32
Bytes4(f) == [i \in 1..4 |-> IF i <= Len(f) THEN f[i] ELSE 0]

\* (a + f(b,c,d) + x + const) mod 2^32 of the row's a, b, c, d, x and constant
ExpectedW0(row, f) ==
    Low32(FAdd(FAdd(FAdd(At(row, RoundGate_a),
                         FFrom(atomic(f, Bytes4(At(row, RoundGate_b)),
                                      Bytes4(At(row, RoundGate_c)),
                                      Bytes4(At(row, RoundGate_d))))),
                    At(row, RoundGate_x)),
               At(row, RoundGate_offset)))

\* (rotate_left(w0, s) + e) mod 2^32
ExpectedANext(row, f, s) ==
    Low32(FAdd(Rotl(ExpectedW0(row, f), s), At(row, RoundGate_e)))

LineFunction == IF call.pround THEN 4 - round ELSE round

C3_WitnessValues ==
    (pc = "returned" /\ call.shift \in 1..31) =>
        /\ At(start_offset, RoundGate_a) = r1[1].value
        /\ At(start_offset, RoundGate_e) = r1[5].value
        /\ At(start_offset, RoundGate_x) = InputOf(call.pround, round, index).value
        /\ At(start_offset, RoundGate_w0) = ExpectedW0(start_offset, LineFunction)
        /\ At(start_offset, RoundGate_w1) = Rotl(ExpectedW0(start_offset, LineFunction), call.shift)
        /\ At(start_offset, RoundGate_a_next) =
               ExpectedANext(start_offset, LineFunction, call.shift)
        /\ At(start_offset, RoundGate_c_next) = Rotl(r1[3].value, 10)
        /\ ret[2].value = At(start_offset, RoundGate_a_next)
        /\ ret[4].value = At(start_offset, RoundGate_c_next)

C3_Witness ==
    /\ pc = "returned"
    /\ call.shift = 13
    /\ call.pround
    /\ round = 1
    /\ At(start_offset, RoundGate_wc) # FZero
    /\ At(start_offset, RoundGate_w1) # At(start_offset, RoundGate_w0)

(***************************************************************************)
(* C4.  assign_compress returns five words, word i (0..4) being            *)
(* (r0[i] + r1[(i+1) mod 5] + r2[(i+2) mod 5]) mod 2^32.                   *)
(***************************************************************************)
C4_CompressWords ==
    pc = "compressed" =>
        \A i \in 0..4 :
            ret[i + 1].value =
                Low32(FAdd(FAdd(start_buf[i + 1].value, r1[((i + 1) % 5) + 1].value),
                           r2[((i + 2) % 5) + 1].value))

C4_Witness ==
    /\ pc = "compressed"
    /\ start_buf[1].value = FFrom(OnesWord)
    /\ r1[2].value = FFrom(OnesWord)
    /\ r2[3].value = FFrom(H0[3])
    /\ ret[1].value = FFrom(wrapping_add(H0[3], <<254, 255, 255, 255>>))

(***************************************************************************)
(* C5.  The constraint system enforces the compression step: a trace in    *)
(* which the value stored at a digest cell of the compress row differs     *)
(* from the mod-2^32 sum of its three source words violates at least one   *)
(* constraint.  configure creates no gate for the compress row, so the     *)
(* finished trace, whose digest cells for a and b hold carries, verifies.  *)
(***************************************************************************)
CompressSum(i) ==
    Low32(FAdd(FAdd(Held(start_buf[i + 1]), Held(r1[((i + 1) % 5) + 1])),
               Held(r2[((i + 2) % 5) + 1])))

C5_CompressEnforced ==
    (pc = "done" /\ \E i \in 0..4 : Held(ret[i + 1]) # CompressSum(i)) => ~Verifies

(***************************************************************************)
(* C6.  After assign_compress, each returned digest cell refers to a trace *)
(* position whose final stored value is that digest word, the positions of *)
(* the new words being distinct from those of the carries.                 *)
(***************************************************************************)
CarryCells == {CompressGate_ca0, CompressGate_ca1, CompressGate_ca2, CompressGate_ca3,
               CompressGate_ca4}

C6_DigestCellsHoldDigest ==
    pc = "done" =>
        \A i \in 1..5 :
            /\ Held(ret[i]) = ret[i].value
            /\ \A g \in CarryCells : <<ret[i].col, ret[i].row>> # <<g.col, start_offset + g.row>>

(***************************************************************************)
(* C7.  On an enabled row with a shift s in 1..31, every assignment of the *)
(* witness cells that satisfies all round-gate equations has               *)
(* a_next = (rotate_left((a + f(b,c,d) + x + const) mod 2^32, s) + e) mod  *)
(* 2^32 and c_next = rotate_left(c, 10).  No equation relates the r limbs  *)
(* to f(b,c,d): a row filled from r + 1 satisfies every equation.          *)
(***************************************************************************)
C7_RoundTemplateSound ==
    \A row \in hsel :
        (pc \in {"returned", "forged"} /\ call.shift \in 1..31 /\ configure(Trace, row)) =>
            /\ At(row, RoundGate_a_next) = ExpectedANext(row, LineFunction, call.shift)
            /\ At(row, RoundGate_c_next) = Rotl(At(row, RoundGate_c), 10)

(***************************************************************************)
(* C8.  A shift table entry of 0 or 32 makes the construction fail before  *)
(* any cell of the trace is written, and no trace is produced from it.     *)
(***************************************************************************)
C8_MalformedRejected ==
    (pc # "call_next" /\ call.shift \in {0, 32}) =>
        /\ pc = "panicked"
        /\ ret = <<>>
        /\ advice = HeldBy(start_buf) @@ HeldBy(inputs)
        /\ fixed = <<>>
        /\ hsel = {}

(***************************************************************************)
(* C9.  bind_cell writes into the target position the value the source     *)
(* cell holds and records an equality between the two cells: every         *)
(* recorded equality links two assigned cells of identical value, and the  *)
(* cells a, b, c, d, e, x of every step row are each the target of one.    *)
(* A source bound into two positions gives two cells of identical value.   *)
(***************************************************************************)
BoundCells == {RoundGate_a, RoundGate_b, RoundGate_c, RoundGate_d, RoundGate_e, RoundGate_x}

C9_BindCell ==
    /\ \A p \in copies : /\ p[1] \in DOMAIN advice
                         /\ p[2] \in DOMAIN advice
                         /\ advice[p[1]] = advice[p[2]]
    /\ \A row \in hsel : \A g \in BoundCells :
           \E p \in copies : p[1] = <<g.col, row + g.row>>

\* the first initial word is bound into row 0 (left line), row 400 (right
\* line) and row 800 (compress)
C9_Witness ==
    /\ pc = "done"
    /\ << <<0, 0>>, <<HelperCol, 0>> >> \in copies
    /\ << <<0, Rounds * Steps * Window>>, <<HelperCol, 0>> >> \in copies
    /\ << <<0, 2 * Rounds * Steps * Window>>, <<HelperCol, 0>> >> \in copies
    /\ advice[<<0, 0>>] = advice[<<0, Rounds * Steps * Window>>]
    /\ advice[<<0, 0>>] = advice[<<HelperCol, 0>>]
    /\ advice[<<0, 0>>] # FZero

(***************************************************************************)
(* C10.  For every shift s in 1..31 the split written for w0 has           *)
(* w1_h < 2^s, w1_l < 2^(32-s), w0 = w1_h * 2^(32-s) + w1_l and            *)
(* rotate_left(w0, s) = w1_l * 2^s + w1_h = w1, the fixed cells hold       *)
(* w1_r = 2^s and w1_rr = 2^(32-s), and no term exceeds 32 bits.           *)
(***************************************************************************)
C10_Split ==
    (pc = "returned" /\ call.shift \in 1..31) =>
        LET s == call.shift
            h == At(start_offset, RoundGate_w1_h)
            l == At(start_offset, RoundGate_w1_l)
            w0 == At(start_offset, RoundGate_w0)
        IN  /\ BelowPow2(h, s)
            /\ BelowPow2(l, 32 - s)
            /\ w0 = FAdd(FMul(h, FPow2(32 - s)), l)
            /\ Rotl(w0, s) = FAdd(FMul(l, FPow2(s)), h)
            /\ At(start_offset, RoundGate_w1) = Rotl(w0, s)
            /\ At(start_offset, RoundGate_w1_r) = FPow2(s)
            /\ At(start_offset, RoundGate_w1_rr) = FPow2(32 - s)
            /\ BelowPow2(w0, 32)
            /\ BelowPow2(FMul(h, FPow2(32 - s)), 32)
            /\ BelowPow2(FAdd(FMul(l, FPow2(s)), h), 32)

\* the boundary shifts, each with a non-zero one-bit part
C10_Witness ==
    /\ pc = "returned"
    /\ \/ call.shift = 1 /\ At(start_offset, RoundGate_w1_h) = FOne
       \/ call.shift = 31 /\ At(start_offset, RoundGate_w1_l) = FOne

(***************************************************************************)
(* C11.  For the 32-bit words of any call whose shift entry lets           *)
(* get_witnesses run (1..32), the call does not fail and the overflow of   *)
(* each sum is its carry: wc = floor((a + r + x + const) / 2^32) is in     *)
(* 0..3 with w0 + wc * 2^32 = a + r + x + const, and                       *)
(* w2c = floor((w1 + e) / 2^32) is in 0..1 with a_next + w2c * 2^32 =      *)
(* w1 + e.  r is the round function's output on the row's b, c, d.         *)
(***************************************************************************)
\* a + r + x + const of a row, as a natural
FourWaySum(row, f) ==
    FAdd(FAdd(FAdd(At(row, RoundGate_a),
                   FFrom(atomic(f, Bytes4(At(row, RoundGate_b)),
                                Bytes4(At(row, RoundGate_c)),
                                Bytes4(At(row, RoundGate_d))))),
              At(row, RoundGate_x)),
         At(row, RoundGate_offset))

\* w1 + e of a row, as a natural
TwoWaySum(row) == FAdd(At(row, RoundGate_w1), At(row, RoundGate_e))

C11_Carries ==
    (pc \in {"returned", "panicked"} /\ call.shift \in 1..32) =>
        LET row == start_offset
            sum == FourWaySum(row, LineFunction)
            wc == At(row, RoundGate_wc)
            w2c == At(row, RoundGate_w2c)
        IN  /\ pc = "returned"
            /\ wc = High32(sum)
            /\ wc \in {FZero, <<1>>, <<2>>, <<3>>}
            /\ FAdd(At(row, RoundGate_w0), FMul(wc, FPow2(32))) = sum
            /\ BelowPow2(At(row, RoundGate_w0), 32)
            /\ w2c = High32(TwoWaySum(row))
            /\ w2c \in {FZero, FOne}
            /\ FAdd(At(row, RoundGate_a_next), FMul(w2c, FPow2(32))) = TwoWaySum(row)
            /\ BelowPow2(At(row, RoundGate_a_next), 32)

\* the largest carries: three out of the four-way sum, one out of the two-way sum
C11_Witness ==
    /\ pc = "returned"
    /\ call.shift \in 1..31
    /\ At(start_offset, RoundGate_wc) = <<3>>
    /\ At(start_offset, RoundGate_w2c) = FOne

(***************************************************************************)
(* C12.  In every step row written by assign_next, each of b, c, d and the *)
(* round-function output r equals limb0 + limb1 * 2^8 + limb2 * 2^16 +     *)
(* limb3 * 2^24 of the four limbs written for it, every limb is below 256, *)
(* and the assertions of assign_next (sum_r == r among them) never fail.   *)
(***************************************************************************)
\* the round function of the step that owns a row: steps 0..79 are the left
\* line's, 80..159 the right line's
RowFunction(row) ==
    LET k == row \div Window
    IN  IF k < Rounds * Steps THEN k \div Steps
        ELSE Rounds - 1 - ((k - Rounds * Steps) \div Steps)

\* limb0 + limb1 * 2^8 + limb2 * 2^16 + limb3 * 2^24 of four cells of a row
LimbSum(row, cells) ==
    FAdd(FAdd(FAdd(At(row, cells[1]), FMul(At(row, cells[2]), FPow2(8))),
              FMul(At(row, cells[3]), FPow2(16))),
         FMul(At(row, cells[4]), FPow2(24)))

LimbCells == {rlimbs_cells, blimbs_cells, climbs_cells, dlimbs_cells}

C12_LimbsReconstruct ==
    /\ \A row \in hsel :
          /\ LimbSum(row, blimbs_cells) = At(row, RoundGate_b)
          /\ LimbSum(row, climbs_cells) = At(row, RoundGate_c)
          /\ LimbSum(row, dlimbs_cells) = At(row, RoundGate_d)
          /\ LimbSum(row, rlimbs_cells) =
                 FFrom(atomic(RowFunction(row), Bytes4(At(row, RoundGate_b)),
                              Bytes4(At(row, RoundGate_c)), Bytes4(At(row, RoundGate_d))))
          /\ \A cells \in LimbCells : \A i \in 1..4 :
                 /\ <<cells[i].col, row + cells[i].row>> \in DOMAIN advice
                 /\ BelowPow2(At(row, cells[i]), 8)
    /\ pc = "left" =>
          ~assign_next(EmptyRegion, start_offset, r1,
                       rotate_inputs(inputs, O[round + 1])[index + 1],
                       round, index, R, ROUNDS_OFFSET, FALSE).panicked
    /\ pc = "right" =>
          ~assign_next(EmptyRegion, start_offset, r2,
                       rotate_inputs(inputs, PO[round + 1])[index + 1],
                       round, index, PR, PROUNDS_OFFSET, TRUE).panicked

\* a finished trace with a row all of whose sixteen limbs are non-zero
C12_Witness ==
    /\ pc = "done"
    /\ Cardinality(hsel) = 2 * Rounds * Steps
    /\ \E row \in hsel : \A cells \in LimbCells : \A i \in 1..4 :
           At(row, cells[i]) # FZero

(***************************************************************************)
(* C13.  Each step returns the quintuple (e, a_next, b, c_next, d) of its  *)
(* own row; the cells a, b, c, d, e of the next step of the same line are  *)
(* equality-bound to, and hold the same values as, the previous step's e,  *)
(* a_next, b, c_next, d; the first step of each line is bound to the       *)
(* caller's initial quintuple.                                             *)
(***************************************************************************)
InCells == << RoundGate_a, RoundGate_b, RoundGate_c, RoundGate_d, RoundGate_e >>

OutCells == << RoundGate_e, RoundGate_a_next, RoundGate_b, RoundGate_c_next, RoundGate_d >>

\* the position of a gate cell of the window starting at row
Pos(row, gate_cell) == <<gate_cell.col, row + gate_cell.row>>

\* the quintuple is the five out cells of the window at row, with the values
\* the trace holds there
IsOutOf(quint, row) ==
    \A i \in 1..5 :
        /\ <<quint[i].col, quint[i].row>> = Pos(row, OutCells[i])
        /\ Pos(row, OutCells[i]) \in DOMAIN advice
        /\ quint[i].value = advice[Pos(row, OutCells[i])]

\* cell p is recorded equal to cell q and holds the same value
BoundTo(p, q) ==
    /\ <<p, q>> \in copies
    /\ p \in DOMAIN advice
    /\ q \in DOMAIN advice
    /\ advice[p] = advice[q]

FirstRows == {0, Rounds * Steps * Window}

C13_RegisterRotation ==
    /\ \A row \in hsel : \A i \in 1..5 :
          IF row \in FirstRows
          THEN BoundTo(Pos(row, InCells[i]), <<start_buf[i].col, start_buf[i].row>>)
          ELSE BoundTo(Pos(row, InCells[i]), Pos(row - Window, OutCells[i]))
    /\ (pc = "left" /\ start_offset > 0) => IsOutOf(r1, start_offset - Window)
    /\ pc \in {"right", "compress", "done"} =>
          IsOutOf(r1, (Rounds * Steps - 1) * Window)
    /\ (pc = "right" /\ start_offset > Rounds * Steps * Window) =>
          IsOutOf(r2, start_offset - Window)
    /\ pc \in {"compress", "done"} => IsOutOf(r2, (2 * Rounds * Steps - 1) * Window)

\* both lines ran: the second step of each is bound to the first, with the
\* words moved to their new roles
C13_Witness ==
    /\ pc = "done"
    /\ BoundTo(Pos(Window, RoundGate_a), Pos(0, RoundGate_e))
    /\ BoundTo(Pos(Window, RoundGate_b), Pos(0, RoundGate_a_next))
    /\ BoundTo(Pos((Rounds * Steps + 1) * Window, RoundGate_d),
               Pos(Rounds * Steps * Window, RoundGate_c_next))
    /\ advice[Pos(0, RoundGate_a_next)] # advice[Pos(0, RoundGate_a)]
    /\ advice[Pos(0, RoundGate_c_next)] # advice[Pos(0, RoundGate_c)]

(***************************************************************************)
(* C14.  The row cursor of assign_content starts at 0, never decreases and *)
(* advances by exactly 5 after each of the 160 round steps (80 left, then  *)
(* 80 right): step k writes only rows 5k..5k+4, so the windows of two      *)
(* steps are disjoint, and assign_compress is called with cursor 800 and   *)
(* writes only rows 800..804.                                              *)
(***************************************************************************)
\* the rows in which a call assigned a cell or enabled the selector
WrittenRows(region) ==
    {p[2] : p \in DOMAIN region.advice} \cup DOMAIN region.fixed \cup region.hsel

\* the number of round steps made so far
StepsDone ==
    CASE pc = "left" -> round * Steps + index
      [] pc = "right" -> Rounds * Steps + round * Steps + index
      [] OTHER -> 2 * Rounds * Steps

WindowAt(cursor) == cursor..(cursor + 4)

C14_CursorState ==
    /\ start_offset = 5 * StepsDone
    /\ StepsDone \in 0..160
    /\ pc = "left" =>
          LET res == assign_next(EmptyRegion, start_offset, r1,
                                 rotate_inputs(inputs, O[round + 1])[index + 1],
                                 round, index, R, ROUNDS_OFFSET, FALSE)
          IN  /\ WrittenRows(res.region) # {}
              /\ WrittenRows(res.region) \subseteq WindowAt(5 * StepsDone)
    /\ pc = "right" =>
          LET res == assign_next(EmptyRegion, start_offset, r2,
                                 rotate_inputs(inputs, PO[round + 1])[index + 1],
                                 round, index, PR, PROUNDS_OFFSET, TRUE)
          IN  /\ WrittenRows(res.region) # {}
              /\ WrittenRows(res.region) \subseteq WindowAt(5 * StepsDone)
    /\ pc = "compress" =>
          /\ start_offset = 800
          /\ WrittenRows(assign_compress(EmptyRegion, start_offset, start_buf, r1, r2).region)
                 \subseteq 800..804
    /\ pc = "done" => start_offset = 800

\* one transition: a round step moves the cursor by 5 and adds to the chip's
\* columns only cells of its own window; the compress call leaves the cursor
C14_CursorStep ==
    /\ start_offset' >= start_offset
    /\ pc \in {"left", "right"} =>
          /\ start_offset' = start_offset + 5
          /\ \A p \in (DOMAIN advice') \ (DOMAIN advice) : p[2] \in WindowAt(start_offset)
          /\ hsel' \ hsel \subseteq WindowAt(start_offset)
    /\ pc = "compress" =>
          /\ start_offset' = start_offset
          /\ \A p \in (DOMAIN advice') \ (DOMAIN advice) : p[2] \in 800..804

C14_RowCursor == [](C14_CursorState) /\ [][C14_CursorStep]_vars

\* the call of assign_compress, after 160 steps, with both lines' last
\* windows (rows 395..399 and 795..799) written
C14_Witness ==
    /\ pc = "compress"
    /\ start_offset = 800
    /\ Cardinality(hsel) = 160
    /\ <<6, 399>> \in DOMAIN advice
    /\ <<6, 799>> \in DOMAIN advice
    /\ <<0, 800>> \notin DOMAIN advice

(***************************************************************************)
(* C15.  After assign_content the round enable flag is 1 on exactly the    *)
(* 160 rows 5k, 0 <= k < 160 (the first row of each step window), and 0 on *)
(* every other row, the rows of the compress window included; a flag once  *)
(* set is never cleared.                                                   *)
(***************************************************************************)
\* the value of the enable flag the gates read on a row
EnableFlag(row) == At(row, RoundGate_hsel(0))

C15_FinalFlags ==
    pc = "done" =>
        /\ \A row \in Rows : EnableFlag(row) = (IF row % 5 = 0 /\ row < 800 THEN FOne ELSE FZero)
        /\ \A row \in 800..804 : EnableFlag(row) = FZero
        /\ hsel = {5 * k : k \in 0..159}
        /\ Cardinality(hsel) = 160

C15_FlagKept == \A row \in Rows : EnableFlag(row) = FOne => get_expr(Trace, row, RoundGate_hsel(0))' = FOne

C15_EnableFlags == [](C15_FinalFlags) /\ [][C15_FlagKept]_vars

\* the finished trace: the last step's flag set, its window's other rows and
\* the compress window (assigned by then) without one
C15_Witness ==
    /\ pc = "done"
    /\ EnableFlag(795) = FOne
    /\ EnableFlag(796) = FZero
    /\ <<0, 800>> \in DOMAIN advice
    /\ EnableFlag(800) = FZero

(***************************************************************************)
(* C16.  The round template's equations place no range restriction on      *)
(* either carry witness: neither wc nor w2c is constrained to its          *)
(* admissible set (0..3, 0..1) by an equation of an enabled row, so a row  *)
(* is accepted for any carry value that balances the linear identity       *)
(* word + carry * 2^32 = sum.  This holds of wc only: "sum with w1 rol4"   *)
(* has the equation w2c * (w2c - 1) = 0 (line 287), and a balanced row     *)
(* with w2c = 2 is rejected.                                               *)
(***************************************************************************)
\* every sum and split of the row balances: the equations of the template
\* that are linear identities between the cells
BalancedRow(row) ==
    /\ At(row, RoundGate_wb) =
           FAdd(FAdd(FAdd(LimbSum(row, rlimbs_cells), At(row, RoundGate_a)),
                     At(row, RoundGate_x)), At(row, RoundGate_offset))
    /\ FAdd(At(row, RoundGate_w0), FMul(At(row, RoundGate_wc), FPow2(32))) =
           At(row, RoundGate_wb)
    /\ At(row, RoundGate_w2b) = FAdd(At(row, RoundGate_w1), At(row, RoundGate_e))
    /\ FAdd(At(row, RoundGate_a_next), FMul(At(row, RoundGate_w2c), FPow2(32))) =
           At(row, RoundGate_w2b)
    /\ LimbSum(row, blimbs_cells) = At(row, RoundGate_b)
    /\ LimbSum(row, climbs_cells) = At(row, RoundGate_c)
    /\ LimbSum(row, dlimbs_cells) = At(row, RoundGate_d)
    /\ FAdd(FMul(At(row, RoundGate_w4_h), FPow2(22)), At(row, RoundGate_w4_l)) =
           At(row, RoundGate_c)
    /\ FAdd(FMul(At(row, RoundGate_w4_l), FPow2(10)), At(row, RoundGate_w4_h)) =
           At(row, RoundGate_c_next)
    /\ FAdd(FMul(At(row, RoundGate_w1_h), At(row, RoundGate_w1_rr)), At(row, RoundGate_w1_l)) =
           At(row, RoundGate_w0)
    /\ FAdd(FMul(At(row, RoundGate_w1_l), At(row, RoundGate_w1_r)), At(row, RoundGate_w1_h)) =
           At(row, RoundGate_w1)

RowFilled == pc \in {"returned", "forged_wc", "forged_w2c"}

\* the claim as stated: a balanced row is accepted whatever its carries
C16_NoCarryRestricted ==
    \A row \in hsel : (RowFilled /\ BalancedRow(row)) => configure(Trace, row)

\* the claim amended: a row is accepted exactly when it is balanced and its
\* w2c is 0 or 1, whatever its wc
C16_OnlyW2cRestricted ==
    \A row \in hsel :
        RowFilled =>
            (configure(Trace, row) <=>
                 (BalancedRow(row) /\ At(row, RoundGate_w2c) \in {FZero, FOne}))

\* an accepted row whose four-way carry is 7
C16_Witness ==
    /\ pc = "forged_wc"
    /\ start_offset \in hsel
    /\ At(start_offset, RoundGate_wc) = <<7>>
    /\ BelowPow2(At(start_offset, RoundGate_w0), 32)
    /\ configure(Trace, start_offset)

\* a balanced row whose two-way carry is 2: rejected
C16_RejectedWitness ==
    /\ pc = "forged_w2c"
    /\ start_offset \in hsel
    /\ At(start_offset, RoundGate_w2c) = <<2>>
    /\ BalancedRow(start_offset)
    /\ ~configure(Trace, start_offset)

=============================================================================
